---- MODULE Spec2Model ----
(***************************************************************************)
(* Model of the WhatsApp chat summarizer (src/app.py): the block parser    *)
(* and media substitution pass of build_full_transcript, the audio         *)
(* transcription adapter transcribe_audio, the archive extractor           *)
(* unzip_chat, the summarizer adapter summarize_text and the pipeline      *)
(* run_summarizer_app.                                                     *)
(***************************************************************************)
EXTENDS Integers, Sequences, FiniteSets, TLC

\* ------------------------------------------------------------------ bounds
MaxLines == 3
MaxRuns == 2

\* --------------------------------------------------------------- constants
None == "None"
\* the None of a date (current_block_date, start_dt); days are positive
NoneDate == 0
NoDate == [d |-> 0, m |-> 0, y |-> 0, ylen |-> 0]
NoFile == [stem |-> "", ext |-> ""]

ConversionSentinel == "[Fehler bei der Konvertierung]"
TranscriptionSentinel == "[Fehler bei der Transkription]"
SummaryFailureMessage == "Die Zusammenfassung konnte aufgrund eines API-Fehlers nicht erstellt werden."

\* ------------------------------------------------------ the text of a line
\* A line of _chat.txt is described by the parts the two regular
\* expressions look at:
\*   pre     what stands before the first '[': "" (nothing), "mark" (one
\*           U+200E) or "junk" (any other text)
\*   bracket the line has a "[...] " group
\*   date    the "DD.MM.Y..," text that opens the bracket (NoDate if the
\*           bracket does not open with such a text); ylen is the number of
\*           digits of the year
\*   sender  the "name:" text after the bracket ("" if there is none)
\*   body    "text", "anhang" (<Anhang: F>) or "medien"
\*           (<Medien ausgeschlossen> (Datei angehängt: F))
\*   file    the F of the attachment announcement
\*   nl      the line ends with a newline
Ln(pre, bracket, date, sender, body, file, nl) ==
    [pre |-> pre, bracket |-> bracket, date |-> date, sender |-> sender,
     body |-> body, file |-> file, nl |-> nl]

DS(d, m, y, ylen) == [d |-> d, m |-> m, y |-> y, ylen |-> ylen]

FA == [stem |-> "a", ext |-> "opus"]
FB == [stem |-> "b", ext |-> "ogg"]
FAmp3 == [stem |-> "a", ext |-> "mp3"]
FBmp3 == [stem |-> "b", ext |-> "mp3"]
FP == [stem |-> "p", ext |-> "jpg"]

\* [31.01.23, 10:00:00] Alice: hi
H1 == Ln("", TRUE, DS(31, 1, 23, 2), "Alice", "text", NoFile, TRUE)
\* [02.02.23, 10:00:00] Bob: <Anhang: a.opus>
H2 == Ln("", TRUE, DS(2, 2, 23, 2), "Bob", "anhang", FA, TRUE)
\* U+200E [01.02.2023, 10:00:00] Alice: <Medien ausgeschlossen> (Datei angehängt: b.ogg)
H3 == Ln("mark", TRUE, DS(1, 2, 2023, 4), "Alice", "medien", FB, TRUE)
\* [99.99.23, 10:00:00] Alice: hi
H4 == Ln("", TRUE, DS(99, 99, 23, 2), "Alice", "text", NoFile, TRUE)
\* second line of a message
T1 == Ln("junk", FALSE, NoDate, "", "text", NoFile, TRUE)
\* see [02.02.23, 10:00:00] Bob: <Anhang: a.opus>
T2 == Ln("junk", TRUE, DS(2, 2, 23, 2), "Bob", "anhang", FA, TRUE)
\* [02.02.23, 10:00:00] Bob: <Anhang: p.jpg>   (no newline at its end)
H5 == Ln("", TRUE, DS(2, 2, 23, 2), "Bob", "anhang", FP, FALSE)

Lines == {H1, H2, H3, H4, H5, T1, T2}
\* line 171: iterating the file yields lines that end with a newline, except
\* possibly the last one
Files ==
    {f \in UNION {[1..n -> Lines] : n \in 0..MaxLines} :
        \A k \in 1..Len(f) : k < Len(f) => f[k].nl}

Paths == {FA, FB, FAmp3, FBmp3, FP}
\* EXTRACT_DIR, EXTRACT_DIR/sub and EXTRACT_DIR/sub/deep
Dirs == {"top", "sub", "deep"}
Texts == {"Hello", "Other"}

\* ------------------------------------------------------------ date parsing
\* date_line_pattern: ^‎?\[(\d{2}\.\d{2}\.\d{2,4}),
DateLineMatch(line) ==
    /\ line.pre \in {"", "mark"}
    /\ line.bracket
    /\ line.date # NoDate
    /\ line.date.ylen \in 2..4

IsLeap(y) == (y % 4 = 0 /\ y % 100 # 0) \/ y % 400 = 0

DaysInMonth(y, m) ==
    IF m = 2 THEN (IF IsLeap(y) THEN 29 ELSE 28)
    ELSE IF m \in {4, 6, 9, 11} THEN 30 ELSE 31

\* %y of strptime: 69..99 are 1969..1999, 0..68 are 2000..2068
Year2(y) == IF y >= 69 THEN 1900 + y ELSE 2000 + y

\* a calendar day as a number that orders as the days do
Day(y, m, d) == y * 10000 + m * 100 + d

ValidDate(y, m, d) ==
    /\ y \in 1..9999
    /\ m \in 1..12
    /\ d \in 1..DaysInMonth(y, m)

\* lines 180-186: strptime with %y for a two-digit year, else with %Y;
\* None on ValueError
ParseDate(ds) ==
    IF ds.ylen = 2
    THEN IF ValidDate(Year2(ds.y), ds.m, ds.d)
         THEN Day(Year2(ds.y), ds.m, ds.d) ELSE NoneDate
    ELSE IF ds.ylen = 4 /\ ValidDate(ds.y, ds.m, ds.d)
         THEN Day(ds.y, ds.m, ds.d) ELSE NoneDate

Cutoffs == {NoneDate, Day(2023, 2, 1)}

\* ------------------------------------------------------ audio line pattern
\* only the attachment form is looked at, not the extension of the file
AudioLineMatchAnyFile(line) ==
    /\ line.bracket
    /\ line.sender # ""
    /\ line.body \in {"anhang", "medien"}

\* audio_line_pattern, searched anywhere in the line:
\*   (\[.*?\] .*?:).*?(?:<Anhang: (F)>|<Medien ausgeschlossen> \(Datei angehängt: (F)\))
AudioLineMatch(line) ==
    /\ line.bracket
    /\ line.sender # ""
    /\ line.body \in {"anhang", "medien"}
    /\ line.file.ext \in {"opus", "ogg"}

\* the first group ends at the bracket and leaves out the sender
MetadataPartBracketOnly(line) == [date |-> line.date, sender |-> ""]

\* match.group(1): the text from the '[' to the ':' (what stands before the
\* '[' is not part of it)
MetadataPart(line) == [date |-> line.date, sender |-> line.sender]

\* match.group(2) or match.group(3)
AudioFilename(line) == line.file

\* an emitted line: the input line itself, or the rewritten audio line
Raw(line) == [kind |-> "raw", line |-> line, meta |-> MetadataPart(T1), text |-> ""]
AudioLine(meta, text) == [kind |-> "audio", line |-> T1, meta |-> meta, text |-> text]

\* ------------------------------------------------------------------- state
VARIABLES
    pc,                     \* position of the running call
    file,                   \* the lines of the chat file that is read
    start_dt,               \* the cutoff (NoneDate or a day)
    base_dir,               \* the directory of the media files
    i,                      \* number of lines the scan has read
    current_block,
    current_block_date,
    full_transcript_lines,
    blocks,                 \* history: the flush decisions taken so far
    j,                      \* number of lines the substitution pass has done
    result_lines,
    audio_transcriptions,   \* the cache: filename -> text, None if absent
    audio_path,             \* transcribe_audio: its argument (below base_dir)
    path_to_transcribe,
    temp_file_to_clean,
    ta_result,              \* transcribe_audio: its return value
    media,                  \* the media files: directory -> path -> content
    ta_calls,               \* history: calls of transcribe_audio per filename
    ta_fail,                \* history: the first failure met per filename
    temp_created,           \* history: the running call wrote its .mp3 file
    svc_log,                \* history: files given to the speech-to-text service
    media_before,           \* history: the media directory when the running
                            \* call of transcribe_audio began
    run,                    \* number of pipeline runs started
    zip_exists,             \* ZIP_FILE exists
    archive,                \* the archive uploaded for the run
    extract_dir,            \* EXTRACT_DIR: directory -> its _chat.txt
    chat_txt_path,          \* the directory of the _chat.txt unzip_chat returned
    sum_log,                \* history: texts given to the text-generation service
    sum_failed,             \* history: the text-generation call failed
    final_summary,
    raised                  \* the exception the run has caught

scanVars == <<i, current_block, current_block_date, full_transcript_lines, blocks>>
substVars == <<j, result_lines, audio_transcriptions>>
taVars == <<audio_path, path_to_transcribe, temp_file_to_clean, ta_result>>
histVars == <<ta_calls, ta_fail, temp_created, svc_log, media_before>>
inVars == <<file, start_dt, base_dir>>
runVars == <<run, zip_exists, archive, extract_dir, chat_txt_path, sum_log,
             sum_failed, final_summary, raised>>

vars == <<pc, inVars, scanVars, substVars, taVars, histVars, media, runVars>>

\* ------------------------------------------------------------ media files
MediaAll == [p \in Paths |-> IF p \in {FA, FB} THEN "orig" ELSE "absent"]
MediaNone == [p \in Paths |-> "absent"]
MediaSibling == [p \in Paths |-> IF p = FBmp3 THEN "absent" ELSE "orig"]
MediaInits == {MediaAll, MediaNone, MediaSibling}

Exists(fs, p) == fs[p] # "absent"

\* os.path.splitext(audio_path)[0] + ".mp3"
TempMp3Path(p) == [stem |-> p.stem, ext |-> "mp3"]

\* ------------------------------------------------- build_full_transcript
\* line 175: the retention rule at a following header
RetainAtHeader(block, block_date, cutoff) ==
    /\ block # <<>>
    /\ \/ cutoff = NoneDate
       \/ (block_date # NoneDate /\ block_date >= cutoff)

\* the last block is kept only if it is dated after the cutoff day
RetainAtEndStrict(block, block_date, cutoff) ==
    /\ block # <<>>
    /\ \/ cutoff = NoneDate
       \/ (block_date # NoneDate /\ block_date > cutoff)

\* line 191: the retention rule for the last block
RetainAtEnd(block, block_date, cutoff) ==
    /\ block # <<>>
    /\ \/ cutoff = NoneDate
       \/ (block_date # NoneDate /\ block_date >= cutoff)

\* a retained block is put in front of the lines taken over so far
FlushInFront(retain, block, out) == IF retain THEN block \o out ELSE out

\* lines 176 and 192
Flush(retain, block, out) == IF retain THEN out \o block ELSE out

Decision(retain, block, block_date, log) ==
    IF block = <<>> THEN log
    ELSE Append(log, [lines |-> block, date |-> block_date, retained |-> retain])

\* lines 166-170 and 195-196: the state at the start of a call
BuildEntry ==
    /\ i = 0
    /\ current_block = <<>>
    /\ current_block_date = NoneDate
    /\ full_transcript_lines = <<>>
    /\ blocks = <<>>
    /\ j = 0
    /\ result_lines = <<>>
    /\ audio_transcriptions = [p \in Paths |-> None]
    /\ audio_path = NoFile
    /\ path_to_transcribe = NoFile
    /\ temp_file_to_clean = NoFile
    /\ ta_result = None
    /\ ta_calls = [p \in Paths |-> 0]
    /\ ta_fail = [p \in Paths |-> "none"]
    /\ temp_created = FALSE
    /\ svc_log = <<>>
    /\ media_before = MediaNone

BuildEntryNext ==
    /\ i' = 0
    /\ current_block' = <<>>
    /\ current_block_date' = NoneDate
    /\ full_transcript_lines' = <<>>
    /\ blocks' = <<>>
    /\ j' = 0
    /\ result_lines' = <<>>
    /\ audio_transcriptions' = [p \in Paths |-> None]
    /\ audio_path' = NoFile
    /\ path_to_transcribe' = NoFile
    /\ temp_file_to_clean' = NoFile
    /\ ta_result' = None
    /\ ta_calls' = [p \in Paths |-> 0]
    /\ ta_fail' = [p \in Paths |-> "none"]
    /\ temp_created' = FALSE
    /\ svc_log' = <<>>
    /\ media_before' = MediaNone

\* lines 171-189: one iteration of the scan
ScanLine ==
    /\ pc = "scan"
    /\ i < Len(file)
    /\ LET line == file[i + 1]
           retain == RetainAtHeader(current_block, current_block_date, start_dt)
       IN IF DateLineMatch(line)
          THEN /\ full_transcript_lines' =
                      Flush(retain, current_block, full_transcript_lines)
               /\ blocks' = Decision(retain, current_block, current_block_date, blocks)
               /\ current_block' = <<line>>
               /\ current_block_date' = ParseDate(line.date)
          ELSE /\ current_block' = Append(current_block, line)
               /\ UNCHANGED <<current_block_date, full_transcript_lines, blocks>>
    /\ i' = i + 1
    /\ UNCHANGED <<pc, inVars, substVars, taVars, histVars, media, runVars>>

\* lines 190-192: the last block
FlushLast ==
    /\ pc = "scan"
    /\ i = Len(file)
    /\ LET retain == RetainAtEnd(current_block, current_block_date, start_dt) IN
       /\ full_transcript_lines' =
              Flush(retain, current_block, full_transcript_lines)
       /\ blocks' = Decision(retain, current_block, current_block_date, blocks)
    /\ pc' = "subst"
    /\ UNCHANGED <<i, current_block, current_block_date>>
    /\ UNCHANGED <<inVars, substVars, taVars, histVars, media, runVars>>

\* ------------------------------------------------------- transcribe_audio
\* a failed conversion goes on to transcribe the file as it is
ConversionErrorFallsThrough(ap) == [pc |-> "ta_service", result |-> None]

\* lines 121-124: the handler of a failed conversion
ConversionError(ap) == [pc |-> "ta_ret", result |-> ConversionSentinel]

\* a failed transcription is raised to the caller
ServiceErrorRaises(ap) == [raise |-> TRUE, result |-> None]

\* lines 133-135: the handler of a failed transcription
ServiceError(ap) == [raise |-> FALSE, result |-> TranscriptionSentinel]

\* lines 136-139: the finally block
Cleanup(fs, temp) ==
    IF temp # NoFile /\ Exists(fs, temp)
    THEN [fs EXCEPT ![temp] = "absent"] ELSE fs

FirstFailure(log, ap, kind) ==
    IF log[ap] = "none" THEN [log EXCEPT ![ap] = kind] ELSE log

\* lines 112-124: the conversion of an .opus file. AudioSegment.from_file
\* decodes the file or fails (it fails if the file is missing); export
\* writes the output file, or fails before or after it has created it
TAConvert ==
    /\ pc = "ta_convert"
    /\ LET temp_mp3_path == TempMp3Path(audio_path)
           fs == media[base_dir]
           handler == ConversionError(audio_path)
           Fail == /\ pc' = handler.pc
                   /\ ta_result' = handler.result
                   /\ ta_fail' = FirstFailure(ta_fail, audio_path, "conversion")
                   /\ UNCHANGED <<path_to_transcribe, temp_file_to_clean>>
       IN \/ /\ Exists(fs, audio_path)
             /\ media' = [media EXCEPT ![base_dir][temp_mp3_path] = "mp3"]
             /\ temp_created' = TRUE
             /\ path_to_transcribe' = temp_mp3_path
             /\ temp_file_to_clean' = temp_mp3_path
             /\ pc' = "ta_service"
             /\ UNCHANGED <<ta_result, ta_fail>>
          \/ /\ UNCHANGED <<media, temp_created>>
             /\ Fail
          \/ /\ Exists(fs, audio_path)
             /\ media' = [media EXCEPT ![base_dir][temp_mp3_path] = "partial"]
             /\ temp_created' = TRUE
             /\ Fail
    /\ UNCHANGED <<audio_path, ta_calls, svc_log, media_before>>
    /\ UNCHANGED <<inVars, scanVars, substVars, runVars>>

\* lines 126-139: open the file, call the service, clean up
TAService ==
    /\ pc = "ta_service"
    /\ LET fs == media[base_dir]
           handler == ServiceError(audio_path)
           Fail(kind) ==
               /\ ta_result' = (IF handler.raise THEN None ELSE handler.result)
               /\ pc' = (IF handler.raise THEN "build_raised" ELSE "ta_ret")
               /\ ta_fail' = FirstFailure(ta_fail, audio_path, kind)
       IN /\ \/ /\ ~Exists(fs, path_to_transcribe)
                /\ Fail("missing")
                /\ UNCHANGED svc_log
             \/ /\ Exists(fs, path_to_transcribe)
                /\ svc_log' = Append(svc_log, path_to_transcribe)
                /\ \/ \E text \in Texts :
                         /\ ta_result' = text
                         /\ pc' = "ta_ret"
                         /\ UNCHANGED ta_fail
                   \/ Fail("transcription")
          /\ media' = [media EXCEPT ![base_dir] = Cleanup(fs, temp_file_to_clean)]
    /\ UNCHANGED <<audio_path, path_to_transcribe, temp_file_to_clean,
                   ta_calls, temp_created, media_before>>
    /\ UNCHANGED <<inVars, scanVars, substVars, runVars>>

\* ------------------------------------------------ media substitution pass
\* only a transcription that succeeded is remembered
CacheStoreSuccessOnly(cache, filename, text) ==
    IF text \in {ConversionSentinel, TranscriptionSentinel}
    THEN cache ELSE [cache EXCEPT ![filename] = text]

\* line 215
CacheStore(cache, filename, text) == [cache EXCEPT ![filename] = text]

\* lines 197-220: one iteration, up to the call of transcribe_audio
SubstLine ==
    /\ pc = "subst"
    /\ j < Len(full_transcript_lines)
    /\ LET line == full_transcript_lines[j + 1]
           audio_filename == AudioFilename(line)
       IN IF AudioLineMatch(line) /\ audio_filename # NoFile
          THEN IF audio_transcriptions[audio_filename] # None
               THEN /\ result_lines' =
                           Append(result_lines,
                                  AudioLine(MetadataPart(line),
                                            audio_transcriptions[audio_filename]))
                    /\ j' = j + 1
                    /\ UNCHANGED <<pc, audio_transcriptions, taVars, histVars>>
               ELSE \* lines 213-214 and 107-112: enter transcribe_audio
                    /\ audio_path' = audio_filename
                    /\ path_to_transcribe' = audio_filename
                    /\ temp_file_to_clean' = NoFile
                    /\ ta_result' = None
                    /\ temp_created' = FALSE
                    /\ media_before' = media[base_dir]
                    /\ ta_calls' = [ta_calls EXCEPT ![audio_filename] = @ + 1]
                    /\ pc' = (IF audio_filename.ext = "opus"
                              THEN "ta_convert" ELSE "ta_service")
                    /\ UNCHANGED <<substVars, ta_fail, svc_log>>
          ELSE /\ result_lines' = Append(result_lines, Raw(line))
               /\ j' = j + 1
               /\ UNCHANGED <<pc, audio_transcriptions, taVars, histVars>>
    /\ UNCHANGED <<inVars, scanVars, media, runVars>>

\* lines 214-218: transcribe_audio has returned
SubstResume ==
    /\ pc = "ta_ret"
    /\ LET line == full_transcript_lines[j + 1] IN
       /\ audio_transcriptions' =
              CacheStore(audio_transcriptions, AudioFilename(line), ta_result)
       /\ result_lines' =
              Append(result_lines, AudioLine(MetadataPart(line), ta_result))
    /\ j' = j + 1
    /\ pc' = "subst"
    /\ UNCHANGED <<inVars, scanVars, taVars, histVars, media, runVars>>

\* the return statement stands inside the loop of the substitution pass
BuildReturnInsideLoop ==
    /\ pc = "subst"
    /\ pc' = "build_ret"
    /\ UNCHANGED <<inVars, scanVars, substVars, taVars, histVars, media, runVars>>

\* line 222
BuildReturn ==
    /\ pc = "subst"
    /\ j = Len(full_transcript_lines)
    /\ pc' = "build_ret"
    /\ UNCHANGED <<inVars, scanVars, substVars, taVars, histVars, media, runVars>>

\* ------------------------------------------------------------- unzip_chat
NoChat == [content |-> <<>>, run |-> 0]
NoArchive == [chat |-> "none", content |-> <<>>, media |-> MediaNone]

\* the chat files the uploaded archives hold
RunFiles == {<<H1, H2>>, <<H3, T1, H2>>, <<H4>>}

\* an uploaded archive: where its _chat.txt lies ("none": it has none), the
\* lines of that file, and the media files beside it
Archives ==
    {[chat |-> "none", content |-> <<>>, media |-> m] : m \in {MediaNone, MediaAll}}
    \cup [chat : Dirs, content : RunFiles, media : {MediaNone, MediaAll}]

\* lines 80-81: extractall writes the members over what the directory holds
ExtractChat(dir, arch, n) ==
    [d \in Dirs |-> IF arch.chat = d
                    THEN [content |-> arch.content, run |-> n] ELSE dir[d]]

ExtractMedia(m, arch) ==
    LET d == IF arch.chat = "none" THEN "top" ELSE arch.chat IN
    [m EXCEPT ![d] = [p \in Paths |-> IF Exists(arch.media, p)
                                      THEN arch.media[p] ELSE m[d][p]]]

\* only the top of the directory is looked at
FindChatTopOnly(dir) ==
    IF dir["top"] # NoChat THEN "top" ELSE "FileNotFoundError"

\* lines 84-93: the file at the top, else the first one os.walk meets
\* (it walks a directory before its subdirectories)
FindChat(dir) ==
    IF dir["top"] # NoChat THEN "top"
    ELSE IF dir["sub"] # NoChat THEN "sub"
    ELSE IF dir["deep"] # NoChat THEN "deep"
    ELSE "FileNotFoundError"

\* ----------------------------------------------------- run_summarizer_app
\* lines 262-270: the button is pressed with a start date and an upload
RunStart ==
    /\ pc = "idle"
    /\ run < MaxRuns
    /\ run' = run + 1
    /\ archive' \in Archives
    /\ start_dt' \in Cutoffs \ {NoneDate}
    /\ zip_exists' = TRUE
    /\ chat_txt_path' = None
    /\ sum_log' = <<>>
    /\ sum_failed' = FALSE
    /\ final_summary' = None
    /\ raised' = None
    /\ file' = <<>>
    /\ BuildEntryNext
    /\ pc' = "unzip"
    /\ UNCHANGED <<base_dir, media, extract_dir>>

\* lines 273-275 and 73-93: unzip_chat, then the call of
\* build_full_transcript on the file it returned
UnzipChat ==
    /\ pc = "unzip"
    /\ LET dir == IF zip_exists THEN ExtractChat(extract_dir, archive, run)
                  ELSE extract_dir
           found == FindChat(dir)
       IN /\ extract_dir' = dir
          /\ media' = (IF zip_exists THEN ExtractMedia(media, archive) ELSE media)
          /\ IF ~zip_exists \/ found = "FileNotFoundError"
             THEN /\ raised' = "FileNotFoundError"
                  /\ pc' = "finally"
                  /\ UNCHANGED <<chat_txt_path, file, base_dir>>
             ELSE /\ chat_txt_path' = found
                  /\ base_dir' = found
                  /\ file' = dir[found].content
                  /\ pc' = "scan"
                  /\ UNCHANGED raised
    /\ UNCHANGED <<start_dt, run, zip_exists, archive, sum_log, sum_failed,
                   final_summary>>
    /\ UNCHANGED <<scanVars, substVars, taVars, histVars>>

\* lines 276 and 239-253: summarize_text. The service answers, raises an
\* openai.APIError, or the call fails with another exception
SummarizeText ==
    /\ pc = "build_ret"
    /\ sum_log' = Append(sum_log, result_lines)
    /\ \/ /\ final_summary' = "summary"
          /\ UNCHANGED <<sum_failed, raised>>
       \/ /\ final_summary' = SummaryFailureMessage
          /\ sum_failed' = TRUE
          /\ UNCHANGED raised
       \/ /\ raised' = "Exception"
          /\ sum_failed' = TRUE
          /\ UNCHANGED final_summary
    /\ pc' = "finally"
    /\ UNCHANGED <<run, zip_exists, archive, extract_dir, chat_txt_path>>
    /\ UNCHANGED <<inVars, scanVars, substVars, taVars, histVars, media>>

\* the archive copy is removed only when the run raised nothing
RunFinallyKeepsZipOnError ==
    /\ pc \in {"finally", "build_raised"}
    /\ raised' = (IF pc = "build_raised" THEN "Exception" ELSE raised)
    /\ zip_exists' = (raised # None)
    /\ pc' = "idle"
    /\ UNCHANGED <<run, archive, extract_dir, chat_txt_path, sum_log,
                   sum_failed, final_summary>>
    /\ UNCHANGED <<inVars, scanVars, substVars, taVars, histVars, media>>

\* lines 281-285: the handler and the finally block of the run
RunFinally ==
    /\ pc \in {"finally", "build_raised"}
    /\ raised' = (IF pc = "build_raised" THEN "Exception" ELSE raised)
    /\ zip_exists' = FALSE
    /\ pc' = "idle"
    /\ UNCHANGED <<run, archive, extract_dir, chat_txt_path, sum_log,
                   sum_failed, final_summary>>
    /\ UNCHANGED <<inVars, scanVars, substVars, taVars, histVars, media>>

RunIdle ==
    /\ run = 0
    /\ zip_exists = FALSE
    /\ archive = NoArchive
    /\ extract_dir = [d \in Dirs |-> NoChat]
    /\ chat_txt_path = None
    /\ sum_log = <<>>
    /\ sum_failed = FALSE
    /\ final_summary = None
    /\ raised = None

\* ------------------------------------- build_full_transcript called alone
Init ==
    /\ pc = "scan"
    /\ file \in Files
    /\ start_dt \in Cutoffs
    /\ base_dir = "top"
    /\ \E m \in MediaInits :
           media = [d \in Dirs |-> IF d = "top" THEN m ELSE MediaNone]
    /\ BuildEntry
    /\ RunIdle

Next ==
    \/ ScanLine
    \/ FlushLast
    \/ SubstLine
    \/ TAConvert
    \/ TAService
    \/ SubstResume
    \/ BuildReturn

Spec == Init /\ [][Next]_vars

\* ------------------------------------------------- the runs of the pipeline
InitRun ==
    /\ pc = "idle"
    /\ file = <<>>
    /\ start_dt = NoneDate
    /\ base_dir = "top"
    /\ media = [d \in Dirs |-> MediaNone]
    /\ BuildEntry
    /\ RunIdle

NextRun ==
    \/ RunStart
    \/ UnzipChat
    \/ ScanLine
    \/ FlushLast
    \/ SubstLine
    \/ TAConvert
    \/ TAService
    \/ SubstResume
    \/ BuildReturn
    \/ SummarizeText
    \/ RunFinally

SpecRun == InitRun /\ [][NextRun]_vars

\* ------------------------------------------------ unzip_chat called alone
\* what the destination directory may hold before the call: in each
\* directory no _chat.txt or one of an earlier extraction
PriorDirs == [Dirs -> {NoChat, [content |-> <<H4>>, run |-> 0]}]

\* lines 73-93: unzip_chat
UnzipCall ==
    /\ pc = "unzip_call"
    /\ LET dir == IF zip_exists THEN ExtractChat(extract_dir, archive, run + 1)
                  ELSE extract_dir
           found == FindChat(dir)
       IN /\ extract_dir' = dir
          /\ media' = (IF zip_exists THEN ExtractMedia(media, archive) ELSE media)
          /\ IF ~zip_exists \/ found = "FileNotFoundError"
             THEN /\ raised' = "FileNotFoundError"
                  /\ pc' = "unzip_raised"
                  /\ UNCHANGED chat_txt_path
             ELSE /\ chat_txt_path' = found
                  /\ pc' = "unzip_ret"
                  /\ UNCHANGED raised
    /\ UNCHANGED <<run, zip_exists, archive, sum_log, sum_failed, final_summary>>
    /\ UNCHANGED <<inVars, scanVars, substVars, taVars, histVars>>

InitUnzip ==
    /\ pc = "unzip_call"
    /\ file = <<>>
    /\ start_dt = NoneDate
    /\ base_dir = "top"
    /\ media = [d \in Dirs |-> MediaNone]
    /\ BuildEntry
    /\ run = 0
    /\ zip_exists \in BOOLEAN
    /\ archive \in Archives
    /\ extract_dir \in PriorDirs
    /\ chat_txt_path = None
    /\ sum_log = <<>>
    /\ sum_failed = FALSE
    /\ final_summary = None
    /\ raised = None

NextUnzip == UnzipCall

SpecUnzip == InitUnzip /\ [][NextUnzip]_vars

\* ================================================================= claims
Cutoff010223 == Day(2023, 2, 1)

HeaderLines(f) == {k \in 1..Len(f) : DateLineMatch(f[k])}
RetainedBlocks == {k \in 1..Len(blocks) : blocks[k].retained}

\* the date a block's first line carries
HeaderDate(b) ==
    IF DateLineMatch(b.lines[1]) THEN ParseDate(b.lines[1].date) ELSE NoneDate

RECURSIVE RetainedLines(_)
RetainedLines(log) ==
    IF log = <<>> THEN <<>>
    ELSE RetainedLines(SubSeq(log, 1, Len(log) - 1))
         \o (IF log[Len(log)].retained THEN log[Len(log)].lines ELSE <<>>)

\* C1: every block with a header that is discarded has a non-null date
\* strictly before the cutoff; a block whose header date cannot be parsed
\* is never discarded.
C1_DiscardedBlocksAreEarlier ==
    \A k \in 1..Len(blocks) :
        (DateLineMatch(blocks[k].lines[1]) /\ ~blocks[k].retained)
            => (blocks[k].date # NoneDate /\ blocks[k].date < start_dt)

\* C2: a block is retained if and only if no cutoff was given or its date
\* is non-null and on or after the cutoff day, at a following header and
\* for the last block alike; the lines taken over are exactly those of the
\* retained blocks. Blocks of 31.01.23 and 02.02.23 with cutoff 01.02.23
\* keep only the second; a block on the cutoff day is kept.
C2_RetentionRule ==
    /\ \A k \in 1..Len(blocks) :
           blocks[k].retained <=>
               \/ start_dt = NoneDate
               \/ (HeaderDate(blocks[k]) # NoneDate
                   /\ HeaderDate(blocks[k]) >= start_dt)
    /\ full_transcript_lines = RetainedLines(blocks)
    /\ (pc # "scan" /\ start_dt = Cutoff010223 /\ file = <<H1, H2>>)
           => full_transcript_lines = <<H2>>
    /\ (pc # "scan" /\ start_dt = Cutoff010223 /\ file = <<H3>>)
           => full_transcript_lines = <<H3>>

C2_Witness ==
    /\ pc = "build_ret"
    /\ start_dt = Cutoff010223
    /\ Len(blocks) = 3
    /\ ~blocks[1].retained
    /\ blocks[2].retained
    /\ blocks[3].retained
    /\ blocks[3].date = start_dt

\* C3: every emitted block starts with a header line and has no header
\* line after it; lines before the first header line never reach the
\* output, and a file without a header line yields an empty transcript.
C3_BlocksStartWithHeader ==
    pc = "build_ret" =>
        /\ \A k \in RetainedBlocks :
               /\ DateLineMatch(blocks[k].lines[1])
               /\ \A n \in 2..Len(blocks[k].lines) :
                      ~DateLineMatch(blocks[k].lines[n])
        /\ full_transcript_lines # <<>> => DateLineMatch(full_transcript_lines[1])
        /\ HeaderLines(file) = {} => result_lines = <<>>

\* C4: without a cutoff the number of retained blocks is the number of
\* header lines of the file.
C4_BlockCountWithoutCutoff ==
    (pc = "build_ret" /\ start_dt = NoneDate)
        => Cardinality(RetainedBlocks) = Cardinality(HeaderLines(file))

\* C5: within one call transcribe_audio is invoked at most once per
\* filename, also when the first invocation returned a sentinel, and all
\* references to a filename emit the same text.
C5_OneCallPerFilename ==
    /\ \A f \in Paths : ta_calls[f] <= 1
    /\ \A k, n \in 1..Len(result_lines) :
           (/\ AudioLineMatch(full_transcript_lines[k])
            /\ AudioLineMatch(full_transcript_lines[n])
            /\ AudioFilename(full_transcript_lines[k])
                   = AudioFilename(full_transcript_lines[n]))
               => result_lines[k].text = result_lines[n].text

C5_Witness ==
    /\ pc = "build_ret"
    /\ \E k, n \in 1..Len(result_lines) :
           /\ k < n
           /\ result_lines[k].kind = "audio"
           /\ result_lines[n].kind = "audio"
           /\ AudioFilename(full_transcript_lines[k])
                  = AudioFilename(full_transcript_lines[n])
           /\ ta_fail[AudioFilename(full_transcript_lines[k])] # "none"
           /\ ta_calls[AudioFilename(full_transcript_lines[k])] = 1

\* C6: the .mp3 file that transcribe_audio created for an .opus input no
\* longer exists when transcribe_audio returns, on every exit path.
C6_TempFileRemoved ==
    (pc = "ta_ret" /\ temp_created)
        => ~Exists(media[base_dir], TempMp3Path(audio_path))

\* C7: when the archive of a run holds no _chat.txt, the run raises
\* FileNotFoundError and makes no transcription and no summarization call,
\* also when it follows earlier runs.
C7_MissingChatAbortsRun ==
    (archive.chat = "none" /\ pc \notin {"idle", "unzip"})
        => /\ pc = "finally"
           /\ raised = "FileNotFoundError"
           /\ \A f \in Paths : ta_calls[f] = 0
           /\ svc_log = <<>>
           /\ sum_log = <<>>

\* C8: summarize_text never raises: when the text-generation call fails,
\* in whatever way, the fixed failure message is returned.
C8_SummarizeNeverRaises ==
    sum_failed => (raised = None /\ final_summary = SummaryFailureMessage)

\* the sentinel that stands for a failure of the given kind
SentinelOf(kind) ==
    IF kind = "conversion" THEN ConversionSentinel ELSE TranscriptionSentinel

\* C9: a failure for one audio file never aborts build_full_transcript:
\* the line is emitted with the sentinel as its text, every other retained
\* line is emitted too, and the summarizer is called with the transcript.
C9_AudioFailuresIsolated ==
    /\ pc # "build_raised"
    /\ pc \in {"build_ret", "finally", "idle"} =>
           /\ Len(result_lines) = Len(full_transcript_lines)
           /\ \A k \in 1..Len(result_lines) :
                  LET line == full_transcript_lines[k] IN
                  IF AudioLineMatch(line)
                  THEN /\ result_lines[k].kind = "audio"
                       /\ result_lines[k].meta = MetadataPart(line)
                       /\ IF ta_fail[AudioFilename(line)] = "none"
                          THEN result_lines[k].text \in Texts
                          ELSE result_lines[k].text
                                   = SentinelOf(ta_fail[AudioFilename(line)])
                  ELSE result_lines[k] = Raw(line)
    /\ (pc \in {"finally", "idle"} /\ chat_txt_path # None)
           => sum_log = <<result_lines>>

C9_Witness ==
    /\ pc = "finally"
    /\ sum_log = <<result_lines>>
    /\ Len(result_lines) = 3
    /\ \E f \in Paths : ta_fail[f] = "transcription"
    /\ \E k \in 1..Len(result_lines) :
           result_lines[k].kind = "audio" /\ result_lines[k].text \in Texts
    /\ \E k \in 1..Len(result_lines) : result_lines[k].kind = "raw"

\* C10: when the conversion of an .opus file fails, transcribe_audio
\* returns the conversion sentinel and gives neither the converted nor the
\* original file to the speech-to-text service; when the service fails it
\* returns another sentinel.
C10_ConversionFailureSkipsService ==
    pc = "ta_ret" =>
        /\ ta_fail[audio_path] = "conversion" =>
               /\ ta_result = ConversionSentinel
               /\ \A k \in 1..Len(svc_log) :
                      svc_log[k] \notin {audio_path, TempMp3Path(audio_path)}
        /\ ta_fail[audio_path] = "transcription" =>
               /\ ta_result = TranscriptionSentinel
               /\ ta_result # ConversionSentinel

C10_Witness ==
    /\ pc = "ta_ret"
    /\ ta_fail[audio_path] = "conversion"
    /\ Exists(media[base_dir], audio_path)
    /\ ta_fail[FB] = "transcription"
    /\ svc_log = <<FB>>

RECURSIVE AllLines(_)
AllLines(log) ==
    IF log = <<>> THEN <<>>
    ELSE AllLines(SubSeq(log, 1, Len(log) - 1)) \o log[Len(log)].lines

\* the emitted line comes from the given input line
EmittedFrom(out, line) ==
    \/ out.kind = "raw" /\ out.line = line
    \/ out.kind = "audio" /\ out.meta.date = line.date
                          /\ out.meta.sender = line.sender

\* C11: the output keeps the order of the file: the blocks are consecutive
\* pieces of the file in file order, the lines taken over are the lines of
\* the retained blocks in that order, and there is exactly one emitted
\* line for each of them, in the same order, with or without a cutoff.
C11_FileOrderPreserved ==
    /\ pc = "scan" => AllLines(blocks) \o current_block = SubSeq(file, 1, i)
    /\ full_transcript_lines = RetainedLines(blocks)
    /\ Len(result_lines) = j
    /\ \A k \in 1..Len(result_lines) :
           EmittedFrom(result_lines[k], full_transcript_lines[k])
    /\ pc = "build_ret" => Len(result_lines) = Len(full_transcript_lines)
    /\ pc # "scan" => AllLines(blocks) = file

C11_Witness ==
    /\ pc = "build_ret"
    /\ start_dt = Cutoff010223
    /\ file = <<H3, H1, H2>>
    /\ full_transcript_lines = <<H3, H2>>
    /\ Len(result_lines) = 2
    /\ result_lines[1].meta.sender = "Alice"
    /\ result_lines[2].meta.sender = "Bob"

\* the header line that the line at position k of f belongs to (0: none)
OwnerHeader(f, k) ==
    LET hs == {h \in 1..k : DateLineMatch(f[h])} IN
    IF hs = {} THEN 0 ELSE CHOOSE h \in hs : \A g \in hs : g <= h

\* the block of the line at position k of f has a header and is kept
InKeptBlock(f, cutoff, k) ==
    /\ OwnerHeader(f, k) # 0
    /\ \/ cutoff = NoneDate
       \/ /\ ParseDate(f[OwnerHeader(f, k)].date) # NoneDate
          /\ ParseDate(f[OwnerHeader(f, k)].date) >= cutoff

RECURSIVE LinesOfKeptBlocks(_, _, _)
LinesOfKeptBlocks(f, cutoff, n) ==
    IF n = 0 THEN <<>>
    ELSE LinesOfKeptBlocks(f, cutoff, n - 1)
         \o (IF InKeptBlock(f, cutoff, n) THEN <<f[n]>> ELSE <<>>)

\* C12: a non-header line never starts a block of its own: every block is
\* a header line followed by the consecutive non-header lines after it, a
\* retained block is taken over with all of them and a discarded block
\* contributes no line.
C12_BlocksAreHeaderPlusContinuations ==
    /\ \A k \in 1..Len(blocks) :
           /\ DateLineMatch(blocks[k].lines[1])
           /\ \A n \in 2..Len(blocks[k].lines) : ~DateLineMatch(blocks[k].lines[n])
    /\ pc # "scan" =>
           full_transcript_lines = LinesOfKeptBlocks(file, start_dt, Len(file))

\* the line holds an attachment announcement of one of the two forms for an
\* .opus or .ogg file, after a "[...] sender:" text
HasAudioReference(line) ==
    /\ line.bracket
    /\ line.sender # ""
    /\ \/ line.body = "anhang" /\ line.file.ext \in {"opus", "ogg"}
       \/ line.body = "medien" /\ line.file.ext \in {"opus", "ogg"}

\* an emitted line ends with a newline
EndsWithNewline(out) == IF out.kind = "audio" THEN TRUE ELSE out.line.nl

\* C13: every retained line with an audio reference is emitted as
\* "<metadataPrefix> [AUDIO] <transcribedText>" and one newline, with the
\* cached result of the adapter for its file as the text and nothing else
\* of the line; "[02.02.23, 10:00:00] Bob: <Anhang: a.opus>" transcribed
\* as "Hello" gives "[02.02.23, 10:00:00] Bob: [AUDIO] Hello\n".
C13_AudioLineRewritten ==
    \A k \in 1..Len(result_lines) :
        LET line == full_transcript_lines[k]
            out == result_lines[k]
        IN /\ HasAudioReference(line) =>
                  /\ out.kind = "audio"
                  /\ out.meta.date = line.date
                  /\ out.meta.sender = line.sender
                  /\ out.text = audio_transcriptions[line.file]
                  /\ out.text \in Texts \cup {ConversionSentinel, TranscriptionSentinel}
                  /\ EndsWithNewline(out)
           /\ (line = H2 /\ audio_transcriptions[FA] = "Hello") =>
                  out = [kind |-> "audio", line |-> T1,
                         meta |-> [date |-> DS(2, 2, 23, 2), sender |-> "Bob"],
                         text |-> "Hello"]

C13_Witness ==
    /\ pc = "build_ret"
    /\ full_transcript_lines = <<H2, H3>>
    /\ result_lines[1].text = "Hello"
    /\ result_lines[1].meta.sender = "Bob"
    /\ result_lines[2].text = "Other"
    /\ result_lines[2].meta.sender = "Alice"

\* C14: every retained line without an audio reference is emitted as it
\* is, with its newline or without one, and causes no transcription call.
C14_OtherLinesUnchanged ==
    /\ \A k \in 1..Len(result_lines) :
           ~HasAudioReference(full_transcript_lines[k]) =>
               /\ result_lines[k].kind = "raw"
               /\ result_lines[k].line = full_transcript_lines[k]
               /\ EndsWithNewline(result_lines[k]) = full_transcript_lines[k].nl
    /\ \A f \in Paths :
           ta_calls[f] > 0 =>
               \E k \in 1..Len(full_transcript_lines) :
                   /\ HasAudioReference(full_transcript_lines[k])
                   /\ full_transcript_lines[k].file = f
    /\ (\A k \in 1..Len(full_transcript_lines) :
            ~HasAudioReference(full_transcript_lines[k]))
           => (svc_log = <<>> /\ pc \notin {"ta_convert", "ta_service", "ta_ret"})

C14_Witness ==
    /\ pc = "build_ret"
    /\ full_transcript_lines = <<H1, T1, H5>>
    /\ result_lines = <<Raw(H1), Raw(T1), Raw(H5)>>
    /\ ~EndsWithNewline(result_lines[3])
    /\ \A f \in Paths : ta_calls[f] = 0

\* C15: unzip_chat raises FileNotFoundError if the archive does not exist
\* or if after the extraction no _chat.txt lies anywhere under the
\* destination; otherwise it returns the path of a _chat.txt under the
\* destination, at the top or in a subdirectory of any depth.
C15_UnzipFindsChatAtAnyDepth ==
    pc \in {"unzip_ret", "unzip_raised"} =>
        /\ pc = "unzip_raised" <=>
               \/ ~zip_exists
               \/ \A d \in Dirs : extract_dir[d] = NoChat
        /\ pc = "unzip_raised" => raised = "FileNotFoundError"
        /\ pc = "unzip_ret" =>
               /\ chat_txt_path \in Dirs
               /\ extract_dir[chat_txt_path] # NoChat

C15_Witness ==
    /\ pc = "unzip_ret"
    /\ archive.chat = "deep"
    /\ chat_txt_path = "deep"
    /\ extract_dir["deep"].run = 1

\* a step that calls transcribe_audio or the speech-to-text service
TranscriptionStep ==
    \/ \E f \in Paths : ta_calls'[f] > ta_calls[f]
    \/ Len(svc_log') > Len(svc_log)

\* a step that calls the text-generation service
SummarizationStep == sum_log' # sum_log /\ sum_log' # <<>>

\* C16: a run goes through extraction, parsing, substitution with its
\* transcription calls and summarization in this order: a transcription
\* call happens after unzip_chat returned and before the summarization
\* call, and summarize_text is called at most once, after
\* build_full_transcript has returned and with the transcript it returned.
C16_StagesInOrder ==
    [][/\ TranscriptionStep =>
              /\ chat_txt_path \in Dirs
              /\ i = Len(file)
              /\ pc \in {"subst", "ta_convert", "ta_service"}
              /\ sum_log = <<>>
              /\ sum_log' = <<>>
       /\ SummarizationStep =>
              /\ pc = "build_ret"
              /\ chat_txt_path \in Dirs
              /\ sum_log = <<>>
              /\ i = Len(file)
              /\ j = Len(full_transcript_lines)
              /\ Len(result_lines) = Len(full_transcript_lines)
              /\ sum_log' = <<result_lines>>
       /\ pc = "unzip" =>
              /\ \A f \in Paths : ta_calls[f] = 0
              /\ svc_log = <<>>
              /\ sum_log = <<>>
      ]_vars

C16_Witness ==
    /\ pc = "finally"
    /\ raised = None
    /\ sum_log = <<result_lines>>
    /\ Len(svc_log) = 2
    /\ Len(result_lines) = 3

C18_ContinuationLinesVerbatim ==
    \A k \in 1..Len(result_lines) :
        (DateLineMatch(file[1]) /\ ~DateLineMatch(full_transcript_lines[k]))
            => result_lines[k] = Raw(full_transcript_lines[k])

\* C19: the _chat.txt that a run parses was extracted from the archive
\* uploaded for that run, never left behind by an earlier run.
C19_ChatFileIsOfThisRun ==
    (chat_txt_path \in Dirs /\ archive.chat \in Dirs) =>
        /\ chat_txt_path = archive.chat
        /\ extract_dir[chat_txt_path].run = run
        /\ pc \in {"scan", "subst"} => file = archive.content

\* C20: when transcribe_audio returns, every file that was in the media
\* directory before the call is still there with its content, also a file
\* at the .mp3 path that the conversion writes to.
C20_MediaFilesUntouched ==
    pc = "ta_ret" =>
        \A p \in Paths :
            Exists(media_before, p) => media[base_dir][p] = media_before[p]

====
